---- MODULE Spec2Model ----
(***************************************************************************)
(* Model of src/src/tools/testing.ts: the two tools of the 'testing'       *)
(* capability, browser_generate_playwright_test (generateTest) and         *)
(* browser_validate_locator (validateLocator).                             *)
(*                                                                         *)
(* Strings are modelled as sequences of chunks.  A chunk is either the     *)
(* line feed LF or a piece of text that holds no line feed, so that        *)
(* Array.prototype.join('\n') and the reading of a text line by line are   *)
(* computed and not assumed.                                               *)
(***************************************************************************)
EXTENDS Integers, Sequences, FiniteSets, TLC

\* ------------------------------------------------------------------ bounds
NumElements == 3      \* DOM elements of the page (main specification)
NumHandles == 3       \* element handles given to the classifier alone
MaxMatched == 3       \* longest matched list given to the classifier alone
MaxSteps == 2         \* longest steps array given to the composer alone
MaxStrLen == 2        \* longest input string (in chunks) given to the composer

\* --------------------------------------------------------------- strings
LF == "\n"

\* A string literal that holds no line feed.
Str(s) == <<s>>

RECURSIVE Join(_, _)
\* Array.prototype.join: the elements, with sep between consecutive ones.
Join(arr, sep) ==
  IF Len(arr) = 0 THEN <<>>
  ELSE IF Len(arr) = 1 THEN arr[1]
  ELSE arr[1] \o sep \o Join(Tail(arr), sep)

DigitChar == <<"0", "1", "2", "3", "4", "5", "6", "7", "8", "9">>

RECURSIVE NumberToString(_)
\* The decimal rendering a template literal gives a non-negative integer.
NumberToString(n) ==
  IF n < 10 THEN <<DigitChar[n + 1]>>
  ELSE NumberToString(n \div 10) \o <<DigitChar[(n % 10) + 1]>>

\* ------------------------------------------------ generateTest (lines 27-64)
FixedLines ==
  << Str("## Instructions"),
     Str("- You are a playwright test generator."),
     Str("- You are given a scenario and you need to generate a playwright test for it."),
     Str("- DO NOT generate test code based on the scenario alone. DO run steps one by one using the tools provided instead."),
     Str("- Only after all steps are completed, emit a Playwright TypeScript test that uses @playwright/test based on message history"),
     Str("- Save generated test file in the tests directory") >>

\* A mutant of StepLine: the ordinal is the 0-based index itself.
StepLineZeroBased(step, index) ==
  Str("- ") \o NumberToString(index) \o Str(". ") \o step

\* `- ${index + 1}. ${step}`, index being the 0-based index of Array.map.
StepLine(step, index) ==
  Str("- ") \o NumberToString(index + 1) \o Str(". ") \o step

\* params.steps.map((step, index) => ...)
StepLines(steps) == [i \in 1..Len(steps) |-> StepLine(steps[i], i - 1)]

instructions(params) ==
  Join(FixedLines
         \o << Str("Test name: ") \o params.name,
               Str("Description: ") \o params.description,
               Str("Steps:") >>
         \o StepLines(params.steps),
       <<LF>>)

\* A mutant of ToolResult: the result asks the host for a fresh snapshot.
ToolResultCapturing(text) ==
  [ resultOverride |-> [content |-> <<[type |-> "text", text |-> text]>>],
    code |-> <<>>,
    captureSnapshot |-> TRUE,
    waitForNetwork |-> FALSE ]

\* What a handler returns: the text block and the three flags.
ToolResult(text) ==
  [ resultOverride |-> [content |-> <<[type |-> "text", text |-> text]>>],
    code |-> <<>>,
    captureSnapshot |-> FALSE,
    waitForNetwork |-> FALSE ]

\* --------------------------------------------- validateLocator (lines 74-117)
Null == 0
Elements == 1..NumElements
Handles == 1..NumHandles

NoReferenceFound == Str("No reference element found")
NoMatch == Str("Locator does not match any elements")
Valid == Str("Locator is valid")
Ambiguous == Str("Locator is ambiguous, it matches the reference element but also other elements")
Invalid == Str("Locator is invalid, it does not match the reference element")
Messages == {NoReferenceFound, NoMatch, Valid, Ambiguous, Invalid}

\* Array.prototype.includes
Includes(elems, x) == \E i \in 1..Len(elems) : elems[i] = x

\* A mutant of Classify: the valid rule does not look at the length.
ClassifyNoCardinality(elems, refElem) ==
  IF refElem = Null THEN <<NoReferenceFound>>
  ELSE IF Len(elems) = 0 THEN <<NoMatch>>
  ELSE IF elems[1] = refElem THEN <<Valid>>
  ELSE IF Len(elems) > 1 /\ Includes(elems, refElem) THEN <<Ambiguous>>
  ELSE <<Invalid>>

RECURSIVE Deduplicated(_)
\* A list without the later occurrences of its elements.
Deduplicated(elems) ==
  IF Len(elems) = 0 THEN <<>>
  ELSE LET front == Deduplicated(SubSeq(elems, 1, Len(elems) - 1))
           last == elems[Len(elems)]
       IN IF Includes(front, last) THEN front ELSE Append(front, last)

\* A mutant of Classify: the matched list is deduplicated by identity first.
ClassifyDeduplicated(elems, refElem) ==
  LET unique == Deduplicated(elems)
  IN IF refElem = Null THEN <<NoReferenceFound>>
     ELSE IF Len(unique) = 0 THEN <<NoMatch>>
     ELSE IF Len(unique) = 1 /\ unique[1] = refElem THEN <<Valid>>
     ELSE IF Len(unique) > 1 /\ Includes(unique, refElem) THEN <<Ambiguous>>
     ELSE <<Invalid>>

\* A mutant of Classify: the empty match is tested before the reference.
ClassifyMatchedFirst(elems, refElem) ==
  IF Len(elems) = 0 THEN <<NoMatch>>
  ELSE IF refElem = Null THEN <<NoReferenceFound>>
  ELSE IF Len(elems) = 1 /\ elems[1] = refElem THEN <<Valid>>
  ELSE IF Len(elems) > 1 /\ Includes(elems, refElem) THEN <<Ambiguous>>
  ELSE <<Invalid>>

\* The callback given to evaluateAll: the array it returns.
Classify(elems, refElem) ==
  IF refElem = Null THEN <<NoReferenceFound>>
  ELSE IF Len(elems) = 0 THEN <<NoMatch>>
  ELSE IF Len(elems) = 1 /\ elems[1] = refElem THEN <<Valid>>
  ELSE IF Len(elems) > 1 /\ Includes(elems, refElem) THEN <<Ambiguous>>
  ELSE <<Invalid>>


\* text.join('\n') and the returned object (lines 105-115).
ValidateLocatorResult(text) == ToolResult(Join(text, <<LF>>))

\* context.currentTabOrDie(): raises when the context has no current tab.
currentTabOrDie(tabPresent) ==
  IF tabPresent THEN [threw |-> FALSE]
  ELSE [threw |-> TRUE, error |-> "PreconditionError: no current tab"]

\* tab.snapshotOrDie(): raises when no snapshot was captured for the tab.
snapshotOrDie(snap) ==
  IF snap.captured THEN [threw |-> FALSE]
  ELSE [threw |-> TRUE, error |-> "PreconditionError: no snapshot available"]

\* params.testIdAttributeName ?? 'data-testid'
TestIdAttributeName(p) ==
  IF p.testIdAttributeName = "undefined" THEN "data-testid" ELSE p.testIdAttributeName

\* locatorOrSelectorAsSelector('javascript', locator, testIdAttributeName):
\* the native selector, or a parse error for a string outside the grammar.
\* A locator string is modelled by whether it parses and by the elements it
\* designates.
locatorOrSelectorAsSelector(locator, testIdAttributeName) ==
  IF locator.valid
  THEN [threw |-> FALSE,
        selector |-> [targets |-> locator.targets, testId |-> testIdAttributeName]]
  ELSE [threw |-> TRUE, error |-> "ParseError"]

\* refLocator.elementHandle(): the live node the reference designates, null
\* when the reference is unknown to the snapshot or its node is gone; an
\* engine fault raises.
elementHandle(up, snap, doc, ref) ==
  IF ~up THEN [threw |-> TRUE, error |-> "ResolutionError: elementHandle"]
  ELSE IF ref \in snap.refs /\ ref \in doc THEN [threw |-> FALSE, value |-> ref]
  ELSE [threw |-> FALSE, value |-> Null]

RECURSIVE InDocumentOrder(_)
\* The elements of a set, in document order.
InDocumentOrder(S) ==
  IF S = {} THEN <<>>
  ELSE LET m == CHOOSE x \in S : \A y \in S : x <= y
       IN <<m>> \o InDocumentOrder(S \ {m})

\* The elements locator.evaluateAll hands to its callback: those the selector
\* matches in the document at call time; an engine fault raises.
QueryAll(up, doc, sel) ==
  IF ~up THEN [threw |-> TRUE, error |-> "ResolutionError: evaluateAll"]
  ELSE [threw |-> FALSE, value |-> InDocumentOrder(doc \cap sel.targets)]

\* A mutant of ValidateLocatorSync: the snapshot is taken without the check.
ValidateLocatorSyncNoSnapshotCheck(tabPresent, snap, p) ==
  LET tab == currentTabOrDie(tabPresent)
      sel == locatorOrSelectorAsSelector(p.locator, TestIdAttributeName(p))
  IN IF tab.threw
     THEN [stages |-> <<"currentTabOrDie">>, threw |-> TRUE, error |-> tab.error]
     ELSE IF sel.threw
     THEN [stages |-> <<"currentTabOrDie", "snapshotOrDie", "refLocator",
                        "locatorOrSelectorAsSelector">>,
           threw |-> TRUE, error |-> sel.error]
     ELSE [stages |-> <<"currentTabOrDie", "snapshotOrDie", "refLocator",
                        "locatorOrSelectorAsSelector", "page.locator">>,
           threw |-> FALSE, selector |-> sel.selector]

\* A mutant of ValidateLocatorSync: the locator is parsed first.
ValidateLocatorSyncParseFirst(tabPresent, snap, p) ==
  LET tab == currentTabOrDie(tabPresent)
      shot == snapshotOrDie(snap)
      sel == locatorOrSelectorAsSelector(p.locator, TestIdAttributeName(p))
  IN IF sel.threw
     THEN [stages |-> <<"locatorOrSelectorAsSelector">>,
           threw |-> TRUE, error |-> sel.error]
     ELSE IF tab.threw
     THEN [stages |-> <<"locatorOrSelectorAsSelector", "currentTabOrDie">>,
           threw |-> TRUE, error |-> tab.error]
     ELSE IF shot.threw
     THEN [stages |-> <<"locatorOrSelectorAsSelector", "currentTabOrDie",
                        "snapshotOrDie">>,
           threw |-> TRUE, error |-> shot.error]
     ELSE [stages |-> <<"currentTabOrDie", "snapshotOrDie", "refLocator",
                        "locatorOrSelectorAsSelector", "page.locator">>,
           threw |-> FALSE, selector |-> sel.selector]

\* Lines 85-91, the part of the handler before its first await: the stages
\* attempted, in order, and the error of the first one that raises.
ValidateLocatorSync(tabPresent, snap, p) ==
  LET tab == currentTabOrDie(tabPresent)
      shot == snapshotOrDie(snap)
      sel == locatorOrSelectorAsSelector(p.locator, TestIdAttributeName(p))
  IN IF tab.threw
     THEN [stages |-> <<"currentTabOrDie">>, threw |-> TRUE, error |-> tab.error]
     ELSE IF shot.threw
     THEN [stages |-> <<"currentTabOrDie", "snapshotOrDie">>,
           threw |-> TRUE, error |-> shot.error]
     ELSE IF sel.threw
     THEN [stages |-> <<"currentTabOrDie", "snapshotOrDie", "refLocator",
                        "locatorOrSelectorAsSelector">>,
           threw |-> TRUE, error |-> sel.error]
     ELSE [stages |-> <<"currentTabOrDie", "snapshotOrDie", "refLocator",
                        "locatorOrSelectorAsSelector", "page.locator">>,
           threw |-> FALSE, selector |-> sel.selector]

Returned(r) == [kind |-> "returned", result |-> r]
Threw(e) == [kind |-> "threw", error |-> e]
NoOutcome == [kind |-> "none"]

\* A mutant of AfterElementHandle: with no reference handle the handler
\* answers at once, the selector not evaluated.
AfterElementHandleShortCircuit(h, tr) ==
  IF h.threw
  THEN [pc |-> "settled", outcome |-> Threw(h.error), trace |-> tr, refElem |-> Null]
  ELSE IF h.value = Null
  THEN [pc |-> "settled",
        outcome |-> Returned(ValidateLocatorResult(<<NoReferenceFound>>)),
        trace |-> tr \o <<"done elementHandle", "classify">>, refElem |-> Null]
  ELSE [pc |-> "evaluating", outcome |-> NoOutcome,
        trace |-> tr \o <<"done elementHandle", "call evaluateAll">>,
        refElem |-> h.value]

\* A mutant of AfterElementHandle: a failed call is issued again.
AfterElementHandleRetry(h, tr) ==
  IF h.threw
  THEN [pc |-> "resolving", outcome |-> NoOutcome,
        trace |-> tr \o <<"call elementHandle">>, refElem |-> Null]
  ELSE [pc |-> "evaluating", outcome |-> NoOutcome,
        trace |-> tr \o <<"done elementHandle", "call evaluateAll">>,
        refElem |-> h.value]

\* `await refLocator.elementHandle()` (line 103) has settled with h: a
\* rejection ends the handler, a value lets locator.evaluateAll be called.
AfterElementHandle(h, tr) ==
  IF h.threw
  THEN [pc |-> "settled", outcome |-> Threw(h.error), trace |-> tr, refElem |-> Null]
  ELSE [pc |-> "evaluating", outcome |-> NoOutcome,
        trace |-> tr \o <<"done elementHandle", "call evaluateAll">>,
        refElem |-> h.value]

\* A mutant of AfterQuery: a failed query is taken for an empty match.
AfterQuerySwallow(q, tr) ==
  IF q.threw
  THEN [pc |-> "matched", outcome |-> NoOutcome,
        trace |-> tr \o <<"done query">>, elems |-> <<>>]
  ELSE [pc |-> "matched", outcome |-> NoOutcome,
        trace |-> tr \o <<"done query">>, elems |-> q.value]

\* The query of `await locator.evaluateAll(...)` (line 93) has settled with
\* q: a rejection ends the handler, a value is handed to the callback.
AfterQuery(q, tr) ==
  IF q.threw
  THEN [pc |-> "settled", outcome |-> Threw(q.error), trace |-> tr, elems |-> <<>>]
  ELSE [pc |-> "matched", outcome |-> NoOutcome,
        trace |-> tr \o <<"done query">>, elems |-> q.value]

\* ---------------------------------------------------------------- state
VARIABLES
  hasTab,      \* the context has a current tab
  snapshot,    \* the tab's captured snapshot: [captured, refs]
  document,    \* the elements now attached to the page
  engineUp,    \* the automation engine answers (FALSE: its calls raise)
  pc,          \* "idle", "called", "resolving", "evaluating", "matched", "settled"
  request,     \* the tool call being served: [tool, params]
  refElem,     \* the handle elementHandle() resolved to, or Null
  elems,       \* the elements evaluateAll handed to the callback
  outcome,     \* how the invocation ended: [kind |-> "none" | "returned" | "threw"]
  trace        \* the stages the invocation went through, in order

vars == <<hasTab, snapshot, document, engineUp, pc, request, refElem, elems, outcome, trace>>
env == <<hasTab, snapshot, document, engineUp>>
call == <<pc, request, refElem, elems, outcome, trace>>

NoSnapshot == [captured |-> FALSE, refs |-> {}]
NoRequest == [tool |-> "none"]

RECURSIVE SeqsUpTo(_, _)
\* The sequences over S of length at most n.
SeqsUpTo(S, n) ==
  IF n = 0 THEN {<<>>}
  ELSE LET shorter == SeqsUpTo(S, n - 1)
       IN shorter \cup {Append(q, x) : q \in {r \in shorter : Len(r) = n - 1}, x \in S}

\* The tool calls a client sends in the main specification.
Locators ==
  {[valid |-> FALSE, targets |-> {}]} \cup {[valid |-> TRUE, targets |-> T] : T \in SUBSET Elements}
Refs == 0..NumElements
ValidateParams ==
  [locator : Locators, element : {Str("button")}, ref : Refs,
   testIdAttributeName : {"undefined", "data-qa"}]
GenerateParams ==
  [name : {Str("Login")}, description : {Str("User logs in")},
   steps : SeqsUpTo({Str("Open page"), <<"Click", LF, "twice">>}, MaxSteps)]

Init ==
  /\ hasTab = FALSE
  /\ snapshot = NoSnapshot
  /\ document \in SUBSET Elements
  /\ engineUp = TRUE
  /\ pc = "idle"
  /\ request = NoRequest
  /\ refElem = Null
  /\ elems = <<>>
  /\ outcome = NoOutcome
  /\ trace = <<>>

\* ------------------------------------------------------- the environment
\* The host opens a tab.
OpenTab ==
  /\ pc = "idle" /\ ~hasTab
  /\ hasTab' = TRUE
  /\ UNCHANGED <<snapshot, document, engineUp>> /\ UNCHANGED call

\* The host closes the tab; its snapshot goes with it.
CloseTab ==
  /\ pc = "idle" /\ hasTab
  /\ hasTab' = FALSE /\ snapshot' = NoSnapshot
  /\ UNCHANGED <<document, engineUp>> /\ UNCHANGED call

\* The host captures a snapshot of the page, between tool calls.
CaptureSnapshot ==
  /\ pc = "idle" /\ hasTab
  /\ snapshot' = [captured |-> TRUE, refs |-> document]
  /\ snapshot' # snapshot
  /\ UNCHANGED <<hasTab, document, engineUp>> /\ UNCHANGED call

\* The page attaches or detaches one element.  The callback of evaluateAll
\* runs in the page right after the query, so nothing changes in between.
MutateDocument ==
  /\ pc # "matched"
  /\ \E e \in Elements :
       document' = IF e \in document THEN document \ {e} ELSE document \cup {e}
  /\ UNCHANGED <<hasTab, snapshot, engineUp>> /\ UNCHANGED call

\* The engine stops or resumes answering (page closed, timeout, ...).
EngineFault ==
  /\ engineUp' = ~engineUp
  /\ UNCHANGED <<hasTab, snapshot, document>> /\ UNCHANGED call

\* ------------------------------------------------------------ the tools
\* A client calls one of the two tools.
Invoke ==
  /\ pc = "idle"
  /\ \/ \E p \in GenerateParams :
          request' = [tool |-> "browser_generate_playwright_test", params |-> p]
     \/ \E p \in ValidateParams :
          request' = [tool |-> "browser_validate_locator", params |-> p]
  /\ pc' = "called"
  /\ refElem' = Null /\ elems' = <<>> /\ outcome' = NoOutcome /\ trace' = <<>>
  /\ UNCHANGED env

\* generateTest.handle (lines 38-50).
GenerateTestHandle ==
  /\ pc = "called" /\ request.tool = "browser_generate_playwright_test"
  /\ outcome' = Returned(ToolResult(instructions(request.params)))
  /\ pc' = "settled"
  /\ UNCHANGED <<request, refElem, elems, trace>> /\ UNCHANGED env

\* validateLocator.handle, lines 85-91 and the call of elementHandle (103).
ValidateLocatorStart ==
  /\ pc = "called" /\ request.tool = "browser_validate_locator"
  /\ LET s == ValidateLocatorSync(hasTab, snapshot, request.params)
     IN IF s.threw
        THEN /\ outcome' = Threw(s.error)
             /\ trace' = s.stages
             /\ pc' = "settled"
        ELSE /\ outcome' = outcome
             /\ trace' = s.stages \o <<"call elementHandle">>
             /\ pc' = "resolving"
  /\ UNCHANGED <<request, refElem, elems>> /\ UNCHANGED env

\* elementHandle() settles; on success evaluateAll is called (line 93).
ValidateLocatorResolved ==
  /\ pc = "resolving"
  /\ LET h == elementHandle(engineUp, snapshot, document, request.params.ref)
         n == AfterElementHandle(h, trace)
     IN /\ pc' = n.pc
        /\ outcome' = n.outcome
        /\ trace' = n.trace
        /\ refElem' = n.refElem
  /\ UNCHANGED <<request, elems>> /\ UNCHANGED env

\* The engine evaluates the selector in the page.
ValidateLocatorQueried ==
  /\ pc = "evaluating"
  /\ LET sel == locatorOrSelectorAsSelector(request.params.locator,
                                            TestIdAttributeName(request.params)).selector
         q == QueryAll(engineUp, document, sel)
         n == AfterQuery(q, trace)
     IN /\ pc' = n.pc
        /\ outcome' = n.outcome
        /\ trace' = n.trace
        /\ elems' = n.elems
  /\ UNCHANGED <<request, refElem>> /\ UNCHANGED env

\* The callback classifies (lines 93-103) and the handler returns (105-115).
ValidateLocatorClassified ==
  /\ pc = "matched"
  /\ outcome' = Returned(ValidateLocatorResult(Classify(elems, refElem)))
  /\ trace' = trace \o <<"classify">>
  /\ pc' = "settled"
  /\ UNCHANGED <<request, refElem, elems>> /\ UNCHANGED env

\* The client takes the answer; the next call may come.
Respond ==
  /\ pc = "settled"
  /\ pc' = "idle"
  /\ request' = NoRequest
  /\ refElem' = Null /\ elems' = <<>> /\ outcome' = NoOutcome /\ trace' = <<>>
  /\ UNCHANGED env

ToolNext ==
  \/ GenerateTestHandle
  \/ ValidateLocatorStart
  \/ ValidateLocatorResolved
  \/ ValidateLocatorQueried
  \/ ValidateLocatorClassified

Next ==
  \/ OpenTab
  \/ CloseTab
  \/ CaptureSnapshot
  \/ MutateDocument
  \/ EngineFault
  \/ Invoke
  \/ GenerateTestHandle
  \/ ValidateLocatorStart
  \/ ValidateLocatorResolved
  \/ ValidateLocatorQueried
  \/ ValidateLocatorClassified
  \/ Respond

Spec == Init /\ [][Next]_vars


\* ----------------------------------------- the classifier alone (C1, C9)
\* A fixed call of validateLocator, stopped where the callback is entered.
ClassifyRequest ==
  [tool |-> "browser_validate_locator",
   params |-> [locator |-> [valid |-> TRUE, targets |-> {}], element |-> Str("button"),
               ref |-> 0, testIdAttributeName |-> "undefined"]]

StagesBeforeClassify ==
  <<"currentTabOrDie", "snapshotOrDie", "refLocator", "locatorOrSelectorAsSelector",
    "page.locator", "call elementHandle", "done elementHandle", "call evaluateAll",
    "done query">>

\* Every matched list up to MaxMatched handles, repeated handles included,
\* with every reference handle or none.
InitClassify ==
  /\ hasTab = TRUE
  /\ snapshot = [captured |-> TRUE, refs |-> {}]
  /\ document = {}
  /\ engineUp = TRUE
  /\ pc = "matched"
  /\ request = ClassifyRequest
  /\ refElem \in Handles \cup {Null}
  /\ elems \in SeqsUpTo(Handles, MaxMatched)
  /\ outcome = NoOutcome
  /\ trace = StagesBeforeClassify

NextClassify == ValidateLocatorClassified

SpecClassify == InitClassify /\ [][NextClassify]_vars

\* ------------------------------------------------- the composer alone (C6)
InputStrings == SeqsUpTo({"a", LF}, MaxStrLen)

ComposeParams ==
  [name : {Str("Login"), <<"Log", LF, "in">>},
   description : {Str("User logs in"), <<LF>>},
   steps : SeqsUpTo(InputStrings, MaxSteps)]

InitCompose ==
  /\ hasTab = FALSE
  /\ snapshot = NoSnapshot
  /\ document = {}
  /\ engineUp = TRUE
  /\ pc = "called"
  /\ request \in [tool : {"browser_generate_playwright_test"}, params : ComposeParams]
  /\ refElem = Null
  /\ elems = <<>>
  /\ outcome = NoOutcome
  /\ trace = <<>>

NextCompose == GenerateTestHandle

SpecCompose == InitCompose /\ [][NextCompose]_vars

\* ------------------------------------------------------------ properties
\* The text block of a returned result.
TextOf(o) == o.result.resultOverride.content[1].text

RECURSIVE Lines(_)
\* The lines of a text: its pieces between line feeds.
Lines(text) ==
  IF \A i \in 1..Len(text) : text[i] # LF THEN <<text>>
  ELSE LET k == CHOOSE i \in 1..Len(text) :
                  text[i] = LF /\ \A j \in 1..(i - 1) : text[j] # LF
       IN <<SubSeq(text, 1, k - 1)>> \o Lines(SubSeq(text, k + 1, Len(text)))

Range(q) == {q[i] : i \in 1..Len(q)}
Count(q, x) == Cardinality({i \in 1..Len(q) : q[i] = x})
Before(q, x, y) == \E i, j \in 1..Len(q) : i < j /\ q[i] = x /\ q[j] = y
IsPrefix(q, r) == Len(q) <= Len(r) /\ \A i \in 1..Len(q) : q[i] = r[i]
Validating == request.tool = "browser_validate_locator"
Generating == request.tool = "browser_generate_playwright_test"
AllStages == StagesBeforeClassify \o <<"classify">>

\* C1: the classification is total: whatever the matched list and the
\* reference, the callback returns (it never raises) exactly one of the five
\* messages, the one of the first rule that applies: no reference; nothing
\* matched; exactly the reference matched; several matched, the reference
\* among them; otherwise invalid.
C1_ClassifyTotal ==
  pc = "settled" =>
    /\ outcome.kind = "returned"
    /\ TextOf(outcome) \in Messages
    /\ TextOf(outcome) = NoReferenceFound <=> refElem = Null
    /\ TextOf(outcome) = NoMatch <=> (refElem # Null /\ elems = <<>>)
    /\ TextOf(outcome) = Valid <=> (refElem # Null /\ elems = <<refElem>>)
    /\ TextOf(outcome) = Ambiguous <=>
         (refElem # Null /\ Len(elems) > 1 /\ refElem \in Range(elems))
    /\ TextOf(outcome) = Invalid <=>
         (refElem # Null /\ Len(elems) >= 1 /\ refElem \notin Range(elems))

C1_Witness ==
  /\ pc = "settled" /\ Len(elems) > 1 /\ refElem # Null
  /\ TextOf(outcome) = Invalid

\* C9: a matched list of more than one element that holds the reference is
\* classified ambiguous, also when the same handle occurs in it twice.
C9_AmbiguousWithDuplicates ==
  (pc = "settled" /\ refElem # Null /\ Len(elems) > 1 /\ refElem \in Range(elems))
    => (outcome.kind = "returned" /\ TextOf(outcome) = Ambiguous)

C9_Witness ==
  /\ pc = "settled" /\ refElem # Null /\ elems = <<refElem, refElem>>
  /\ TextOf(outcome) = Ambiguous


\* The reference of the call designates no live node of the snapshot.
RefUnresolvable ==
  ~(request.params.ref \in snapshot.refs /\ request.params.ref \in document)

\* C2: a reference that is unknown to the snapshot, or whose node is gone,
\* is no error: elementHandle settles with no handle and the handler goes
\* on; and a call that returns with no reference handle returns "No
\* reference element found", whatever the locator matched.
C2_AbsentReferenceIsNoReference ==
  [][ /\ (pc = "resolving" /\ pc' # "resolving" /\ engineUp /\ RefUnresolvable)
           => (refElem' = Null /\ outcome'.kind = "none" /\ pc' = "evaluating")
      /\ (request'.tool = "browser_validate_locator" /\ outcome'.kind = "returned"
            /\ refElem' = Null)
           => TextOf(outcome') = NoReferenceFound ]_vars

C2_Witness ==
  /\ Validating /\ outcome.kind = "returned"
  /\ request.params.ref \notin snapshot.refs
  /\ refElem = Null /\ Len(elems) >= 1
  /\ TextOf(outcome) = NoReferenceFound

\* C3: validateLocator called with a tab but no captured snapshot fails
\* with the precondition error right after the snapshot check: no parse, no
\* reference resolution, no matching, no classification message.
C3_NoSnapshotFailsFast ==
  (Validating /\ pc # "called" /\ hasTab /\ ~snapshot.captured) =>
    /\ pc = "settled"
    /\ outcome = Threw("PreconditionError: no snapshot available")
    /\ trace = <<"currentTabOrDie", "snapshotOrDie">>

C3_Witness ==
  /\ Validating /\ pc = "settled" /\ hasTab /\ ~snapshot.captured
  /\ request.params.locator.valid
  /\ outcome.kind = "threw"

\* A step of validateLocator in which a stage raises.
StageRaises ==
  /\ Validating
  /\ pc' # pc
  /\ \/ pc = "called" /\ (~hasTab \/ ~snapshot.captured \/ ~request.params.locator.valid)
     \/ pc \in {"resolving", "evaluating"} /\ ~engineUp

\* C4: a stage that raises ends the invocation in an error, which stays the
\* invocation's answer; a text result is returned only after every stage has
\* completed, and is one of the five messages.
C4_ErrorsHaltNoPartialResult ==
  [][ /\ StageRaises => (pc' = "settled" /\ outcome'.kind = "threw")
      /\ (outcome.kind = "threw" /\ pc' # "idle") => outcome' = outcome
      /\ (request'.tool = "browser_validate_locator" /\ outcome'.kind = "returned")
           => (trace' = AllStages /\ TextOf(outcome') \in Messages) ]_vars

C4_Witness ==
  /\ Validating /\ pc = "settled"
  /\ outcome = Threw("ResolutionError: evaluateAll")
  /\ "done elementHandle" \in Range(trace)

\* C5: classification starts only after the reference handle is resolved
\* and the selector is evaluated; while either is pending the invocation has
\* no answer.
C5_ClassifyAfterBothReads ==
  Validating =>
    /\ ("classify" \in Range(trace) \/ outcome.kind = "returned") =>
         /\ Before(trace, "done elementHandle", "classify")
         /\ Before(trace, "done query", "classify")
    /\ pc \in {"resolving", "evaluating", "matched"} => outcome.kind = "none"

C5_Witness ==
  /\ Validating /\ outcome.kind = "returned"
  /\ refElem # Null /\ Len(elems) >= 1

\* C7: no step of either tool changes the tab, the snapshot, the document
\* or the engine; a returned result carries captureSnapshot = false,
\* waitForNetwork = false and no code; generateTest reads nothing of the
\* context.
C7_ReadOnlyResult ==
  [][ /\ ToolNext => UNCHANGED env
      /\ outcome'.kind = "returned" =>
           /\ outcome'.result.captureSnapshot = FALSE
           /\ outcome'.result.waitForNetwork = FALSE
           /\ outcome'.result.code = <<>>
      /\ request'.tool = "browser_generate_playwright_test" => trace' = <<>> ]_vars

C7_Witness ==
  /\ Validating /\ outcome.kind = "returned"
  /\ hasTab /\ snapshot.captured /\ document # {}
  /\ outcome.result.captureSnapshot = FALSE

\* C8: within one invocation each engine call is issued at most once, and a
\* failed call ends the invocation: it is not issued again.
C8_NoRetry ==
  /\ Count(trace, "call elementHandle") <= 1
  /\ Count(trace, "call evaluateAll") <= 1
  /\ outcome.kind = "threw" => pc = "settled"

C8_Witness ==
  /\ Validating /\ pc = "settled"
  /\ outcome = Threw("ResolutionError: elementHandle")
  /\ Count(trace, "call elementHandle") = 1

\* C10: the checks run in the order current tab, snapshot, locator parse,
\* reference handle, selector evaluation, and the first that fails gives the
\* error: a missing snapshot wins over an unparsable locator, and an
\* unparsable locator is reported before any engine call is issued.
C10_FailureOrder ==
  (Validating /\ pc # "called") =>
    /\ IsPrefix(trace, AllStages)
    /\ ~hasTab => outcome = Threw("PreconditionError: no current tab")
    /\ (hasTab /\ ~snapshot.captured) =>
         outcome = Threw("PreconditionError: no snapshot available")
    /\ (hasTab /\ snapshot.captured /\ ~request.params.locator.valid) =>
         /\ outcome = Threw("ParseError")
         /\ "call elementHandle" \notin Range(trace)
         /\ "call evaluateAll" \notin Range(trace)
    /\ outcome = Threw("ResolutionError: elementHandle") =>
         "call evaluateAll" \notin Range(trace)

C10_Witness ==
  /\ Validating /\ pc = "settled" /\ hasTab /\ ~snapshot.captured
  /\ ~request.params.locator.valid
  /\ outcome = Threw("PreconditionError: no snapshot available")


\* What the composer is expected to render.
Ordinal(i) == Str("- ") \o NumberToString(i) \o Str(". ")
Heading(p) ==
  Join(FixedLines, <<LF>>) \o <<LF>> \o Str("Test name: ") \o p.name \o <<LF>>
    \o Str("Description: ") \o p.description \o <<LF>> \o Str("Steps:")
Permuted(steps) ==
  {[i \in 1..Len(steps) |-> steps[f[i]]] : f \in Permutations(1..Len(steps))}
LineFeedFree(steps) == \A i \in 1..Len(steps) : LF \notin Range(steps[i])

\* The text ends with the line "Steps:" and then exactly one line per step,
\* the i-th being "- i. " and the i-th step; with no step, the text is the
\* heading, the directives, the name and the description; any permutation of
\* the steps renders as many lines, numbered 1..N in the same places.
RendersOneLinePerStep(p, text) ==
  LET N == Len(p.steps)
      L == Lines(text)
  IN /\ Len(L) > N
     /\ L[Len(L) - N] = Str("Steps:")
     /\ \A i \in 1..N : L[Len(L) - N + i] = Ordinal(i) \o p.steps[i]
     /\ N = 0 => text = Heading(p)
     /\ \A q \in Permuted(p.steps) :
          LET M == Lines(instructions([p EXCEPT !.steps = q]))
          IN /\ Len(M) = Len(L)
             /\ \A i \in 1..N : M[Len(M) - N + i] = Ordinal(i) \o q[i]

\* C6 as stated: for every scenario the text ends with exactly N numbered
\* step lines after the line "Steps:", in input order.
C6_Original ==
  (Generating /\ outcome.kind = "returned") =>
    RendersOneLinePerStep(request.params, TextOf(outcome))

\* C6, amended: the same, for every scenario whose steps hold no line feed.
C6_StepLinesNumbered ==
  (Generating /\ outcome.kind = "returned" /\ LineFeedFree(request.params.steps)) =>
    RendersOneLinePerStep(request.params, TextOf(outcome))

C6_Witness ==
  /\ Generating /\ outcome.kind = "returned"
  /\ Len(request.params.steps) >= 2
  /\ LineFeedFree(request.params.steps)
  /\ request.params.steps[1] # request.params.steps[2]
  /\ LF \in Range(request.params.name)

====
